---- MODULE Spec2Model ----
(***************************************************************************)
(* Model of simple_async_server.py: a pymodbus asynchronous Modbus TCP     *)
(* server whose datastore (four sequential data blocks of NUM_REGS cells)  *)
(* is shared, on one asyncio event loop, by the request handlers of the    *)
(* server and by two periodic tasks, coils_task and                        *)
(* holding_registers_task.                                                 *)
(*                                                                         *)
(* One action is one run of a coroutine between two suspension points:     *)
(* nothing in a task's loop body awaits, so a whole cycle (read, compute,  *)
(* write, verify read) is one step, and so is the execution of one client  *)
(* request.  Python's True/False are written 1/0 (True == 1 in Python and  *)
(* both are one bit on the wire).  Addresses are 0-based as on the wire;   *)
(* TLA+ sequences are 1-based, so cell a of a block is values[a + 1].      *)
(***************************************************************************)
EXTENDS Integers, Sequences, FiniteSets, TLC

VARIABLES
    store,          \* ModbusSlaveContext.store: "d","c","h","i" -> list of cells
    toggle_index,   \* local of coils_task
    task,           \* position of each task: "created", "sleeping", "cancelled", "failed"
    cancel_req,     \* task.cancel() has been called on the task
    main_pc,        \* position of main(): "serving", "gather", "done"
    last,           \* the step just taken: operation, locals of the cycle, request and response
    started,        \* number of cycles each task has started
    completed,      \* number of cycles each task has run to the end of its try block
    nreq,           \* number of client requests executed
    ideal,          \* the banks as the complete writes issued so far, applied in order, leave them
    conn            \* one accepted connection: state, header and PDU received, frames written

vars == <<store, toggle_index, task, cancel_req, main_pc, last, started, completed, nreq, ideal, conn>>

----------------------------------------------------------------------------
(* Bounds of the model *)

MaxCoilsCycles == 3      \* cycles of coils_task, with clients connected
MaxHrCycles == 2         \* cycles of holding_registers_task
MaxRequests == 2         \* client requests
MaxRaises == 2           \* cycles in which a call raises
MaxRoundRobin == 21      \* cycles of coils_task in the long run of the task
MaxStoreCalls == 2       \* write/read pairs made on the context directly
MaxFrames == 2           \* frames received on the connection

----------------------------------------------------------------------------
(* Constants of the program *)

NUM_REGS == 50
BlockAddress == 0
CoilsCount == 10
ToggleModulus == 10
HrCount == 10
WordMask == 65536

Tasks == {"coils", "hr"}
Banks == {"d", "c", "h", "i"}

Min(a, b) == IF a < b THEN a ELSE b

----------------------------------------------------------------------------
(* Python list slicing, for 0 <= start *)

\* s[start:stop]
PySlice(s, start, stop) == SubSeq(s, Min(start, Len(s)) + 1, Min(stop, Len(s)))

\* s[start:start+len(vals)] = vals
PySliceAssign(s, start, vals) ==
    PySlice(s, 0, start) \o vals \o PySlice(s, start + Len(vals), Len(s))

----------------------------------------------------------------------------
(* The datastore *)

discrete_inputs == [i \in 1..NUM_REGS |-> 0]
coils == [i \in 1..NUM_REGS |-> 0]
holding_registers == [i \in 1..NUM_REGS |-> i - 1]
input_registers == [i \in 1..NUM_REGS |-> 1000 + (i - 1)]

build_datastore ==
    [d |-> discrete_inputs, c |-> coils, h |-> holding_registers, i |-> input_registers]

\* addressing from 1: zero_mode left at its default
zero_mode_off == FALSE

\* zero_mode=True: addressing starts at 0
zero_mode == TRUE

\* the single-coil write dispatched to the discrete inputs, the single-register
\* write to the input registers
decode_wrong_bank(fx) ==
    CASE fx \in {2, 5} -> "d"
      [] fx \in {4, 6} -> "i"
      [] fx \in {1, 15} -> "c"
      [] fx \in {3, 16, 22, 23} -> "h"

\* ModbusSlaveContext.decode: function code -> bank
decode(fx) ==
    CASE fx = 2 -> "d"
      [] fx = 4 -> "i"
      [] fx \in {1, 5, 15} -> "c"
      [] fx \in {3, 6, 16, 22, 23} -> "h"

\* the address a block is asked for, given the context's zero_mode
ctx_address(address) == IF zero_mode THEN address ELSE address + 1

\* the count left out of the upper bound
block_validate_ignores_count(values, address, count) ==
    /\ BlockAddress <= address
    /\ BlockAddress + Len(values) >= address

\* ModbusSequentialDataBlock.validate
block_validate(values, address, count) ==
    /\ BlockAddress <= address
    /\ BlockAddress + Len(values) >= address + count

\* the slice one cell short
block_getValues_short(values, address, count) ==
    PySlice(values, address - BlockAddress, address - BlockAddress + count - 1)

\* ModbusSequentialDataBlock.getValues
block_getValues(values, address, count) ==
    PySlice(values, address - BlockAddress, address - BlockAddress + count)

\* a torn write: only the first half of the values is stored
block_setValues_torn(values, address, vals) ==
    PySliceAssign(values, address - BlockAddress, SubSeq(vals, 1, (Len(vals) + 1) \div 2))

\* ModbusSequentialDataBlock.setValues
block_setValues(values, address, vals) ==
    PySliceAssign(values, address - BlockAddress, vals)

\* no range check before the store is accessed
validate_nothing(st, fx, address, count) == TRUE

\* ModbusSlaveContext.validate
validate(st, fx, address, count) ==
    block_validate(st[decode(fx)], ctx_address(address), count)

\* ModbusSlaveContext.getValues
getValues(st, fx, address, count) ==
    block_getValues(st[decode(fx)], ctx_address(address), count)

\* ModbusSlaveContext.setValues
setValues(st, fx, address, vals) ==
    [st EXCEPT ![decode(fx)] = block_setValues(@, ctx_address(address), vals)]

----------------------------------------------------------------------------
(* The periodic tasks.  A cycle is the body of the try block; "raises" names  *)
(* the call of the cycle that raises an exception, "none" when none does.     *)

RaisePoints == {"read", "write", "verify"}

\* the banks after a complete write of vals at address: every cell of the range
\* holds its value of vals, every other cell is as before
IdealWrite(banks, bank, address, vals) ==
    [banks EXCEPT ![bank] =
        [i \in 1..Len(@) |->
            IF address < i /\ i <= address + Len(vals) THEN vals[i - address] ELSE @[i]]]

\* every cell of the range inverted, not only the one at idx
toggle_inverts_all(new_coils, idx) ==
    [k \in 1..Len(new_coils) |-> IF new_coils[k] # 0 THEN 0 ELSE 1]

\* new_coils[idx] = 0 if new_coils[idx] else 1
toggle(new_coils, idx) ==
    [new_coils EXCEPT ![idx + 1] = IF new_coils[idx + 1] # 0 THEN 0 ELSE 1]

\* off by one: the index after the one toggle_index names
toggle_idx_off_by_one(ti) == (ti + 1) % ToggleModulus

\* idx = toggle_index % 10
toggle_idx(ti) == ti % ToggleModulus

\* the increment forgotten
next_toggle_index_stuck(ti, raises) == ti

\* toggle_index += 1, the last statement of the try block
next_toggle_index(ti, raises) == IF raises = "none" THEN ti + 1 ELSE ti

\* the cycle working on a snapshot read before its step began (here: at startup)
coils_cycle_stale_snapshot(st, ti, raises) ==
    LET rr == getValues(build_datastore, 1, 0, CoilsCount)
        idx == toggle_idx(ti)
        new_coils == toggle(rr, idx)
        st2 == setValues(st, 5, 0, new_coils)
        rr_after == getValues(st2, 1, 0, CoilsCount)
    IN  [raises |-> raises,
         idx |-> idx,
         rr |-> rr,
         new |-> new_coils,
         after |-> rr_after,
         wrote |-> TRUE,
         store |-> st2,
         toggle_index |-> next_toggle_index(ti, raises)]

\* one pass through the try block of coils_task
coils_cycle(st, ti, raises) ==
    LET rr == getValues(st, 1, 0, CoilsCount)
        idx == toggle_idx(ti)
        index_error == idx + 1 > Len(rr)
        new_coils == IF index_error THEN rr ELSE toggle(rr, idx)
        st2 == setValues(st, 5, 0, new_coils)
        rr_after == getValues(st2, 1, 0, CoilsCount)
        at == IF raises # "read" /\ index_error THEN "index" ELSE raises
    IN  [raises |-> at,
         idx |-> idx,
         rr |-> IF at = "read" THEN <<>> ELSE rr,
         new |-> IF at \in {"read", "index"} THEN <<>> ELSE new_coils,
         after |-> IF at = "none" THEN rr_after ELSE <<>>,
         wrote |-> at \in {"none", "verify"},
         store |-> IF at \in {"none", "verify"} THEN st2 ELSE st,
         toggle_index |-> next_toggle_index(ti, at)]

\* the mask forgotten: no 16-bit wrap
increment_unmasked(v) == v + 1

\* hr_vals[0] = (hr_vals[0] + 1) & 0xFFFF
increment(v) == (v + 1) % WordMask

\* one pass through the try block of holding_registers_task
hr_cycle(st, raises) ==
    LET hr_vals == getValues(st, 3, 0, HrCount)
        new_vals == IF Len(hr_vals) > 0
                    THEN [hr_vals EXCEPT ![1] = increment(hr_vals[1])]
                    ELSE hr_vals
        writes == Len(hr_vals) > 0
        st2 == IF writes THEN setValues(st, 6, 0, new_vals) ELSE st
        hr_after == getValues(st2, 3, 0, HrCount)
    IN  [raises |-> raises,
         idx |-> 0,
         rr |-> IF raises = "read" THEN <<>> ELSE hr_vals,
         new |-> IF raises = "read" THEN <<>> ELSE new_vals,
         after |-> IF raises = "none" THEN hr_after ELSE <<>>,
         wrote |-> writes /\ raises \in {"none", "verify"},
         store |-> IF raises \in {"none", "verify"} THEN st2 ELSE st]

\* the exception is not handled and ends the task
on_exception_task_dies == "failed"

\* where a task is after the except clause has handled an exception of the cycle
on_exception == "sleeping"

\* the loop left after one cycle: the task returns
after_cycle_returns(raises) == "failed"

\* where a task is after a cycle: both paths fall through to await asyncio.sleep(period)
after_cycle(raises) == IF raises = "none" THEN "sleeping" ELSE on_exception

\* a task takes its next step (its first, or the return of asyncio.sleep) normally
\* unless task.cancel() was called on it
can_run(t) == task[t] \in {"created", "sleeping"} /\ ~cancel_req[t]

NoRequest == [fc |-> 0, address |-> 0, count |-> 0, values |-> <<>>, byte_count |-> 0]
NoResponse == [function_code |-> 0, data |-> <<>>]

Step(op, c) ==
    [op |-> op, raises |-> c.raises, idx |-> c.idx, rr |-> c.rr, new |-> c.new,
     after |-> c.after, wrote |-> c.wrote, request |-> NoRequest, response |-> NoResponse]

NoCycle == [raises |-> "none", idx |-> 0, rr |-> <<>>, new |-> <<>>, after |-> <<>>, wrote |-> FALSE]

Raised == (started["coils"] - completed["coils"]) + (started["hr"] - completed["hr"])

CoilsRun(raises, max) ==
    /\ can_run("coils")
    /\ started["coils"] < max
    /\ raises # "none" => Raised < MaxRaises
    /\ started' = [started EXCEPT !["coils"] = @ + 1]
    /\ LET c == coils_cycle(store, toggle_index, raises)
       IN  /\ store' = c.store
           /\ toggle_index' = c.toggle_index
           /\ last' = Step("coils", c)
           /\ completed' = [completed EXCEPT !["coils"] = IF c.raises = "none" THEN @ + 1 ELSE @]
           /\ ideal' = IF c.wrote THEN IdealWrite(ideal, "c", 0, c.new) ELSE ideal
           /\ task' = [task EXCEPT !["coils"] = after_cycle(c.raises)]
    /\ UNCHANGED <<cancel_req, main_pc, nreq, conn>>

HrRun(raises) ==
    /\ can_run("hr")
    /\ started["hr"] < MaxHrCycles
    /\ raises # "none" => Raised < MaxRaises
    /\ started' = [started EXCEPT !["hr"] = @ + 1]
    /\ LET c == hr_cycle(store, raises)
       IN  /\ store' = c.store
           /\ last' = Step("hr", c)
           /\ completed' = [completed EXCEPT !["hr"] = IF c.raises = "none" THEN @ + 1 ELSE @]
           /\ ideal' = IF c.wrote THEN IdealWrite(ideal, "h", 0, c.new) ELSE ideal
           /\ task' = [task EXCEPT !["hr"] = after_cycle(c.raises)]
    /\ UNCHANGED <<toggle_index, cancel_req, main_pc, nreq, conn>>

\* a cycle of coils_task in which no call raises
CoilsCycle == CoilsRun("none", MaxCoilsCycles)

\* a cycle of coils_task in which one of the datastore calls raises
CoilsCycleRaises == \E p \in RaisePoints : CoilsRun(p, MaxCoilsCycles)

HrCycle == HrRun("none")

HrCycleRaises == \E p \in RaisePoints : HrRun(p)

\* CancelledError is thrown into the task where it is suspended (before its first
\* step, or at await asyncio.sleep, which is outside the try block)
TaskCancelled(t) ==
    /\ task[t] \in {"created", "sleeping"}
    /\ cancel_req[t]
    /\ task' = [task EXCEPT ![t] = "cancelled"]
    /\ last' = Step("cancelled", NoCycle)
    /\ UNCHANGED <<store, toggle_index, cancel_req, main_pc, started, completed, nreq, ideal, conn>>

\* task2.cancel() forgotten
cancelled_by_main_forgets_task2 == {"coils"}

\* the tasks main() cancels in its finally clause
cancelled_by_main == Tasks

\* serve_forever() ends (CancelledError or otherwise); the finally clause calls
\* task1.cancel() and task2.cancel() and main() awaits asyncio.gather
ServeForeverEnds ==
    /\ main_pc = "serving"
    /\ main_pc' = "gather"
    /\ cancel_req' = [t \in Tasks |-> cancel_req[t] \/ (t \in cancelled_by_main /\ task[t] \in {"created", "sleeping"})]
    /\ last' = Step("shutdown", NoCycle)
    /\ UNCHANGED <<store, toggle_index, task, started, completed, nreq, ideal, conn>>

\* asyncio.gather(task1, task2, return_exceptions=True) returns once both are done
gather_done == \A t \in Tasks : task[t] \in {"cancelled", "failed"}

GatherReturns ==
    /\ main_pc = "gather"
    /\ gather_done
    /\ main_pc' = "done"
    /\ last' = Step("done", NoCycle)
    /\ UNCHANGED <<store, toggle_index, task, cancel_req, started, completed, nreq, ideal, conn>>

----------------------------------------------------------------------------
(* Client requests, as the server started by StartAsyncTcpServer executes     *)
(* them against the context: request.execute(context) of pymodbus.  A         *)
(* request is the decoded PDU; a response is its function code and the bytes  *)
(* that follow it on the wire.                                                *)

IllegalFunction == 1
IllegalAddress == 2
IllegalValue == 3
ExceptionBit == 128
ModbusStatusOn == 65280
MaxReadBits == 2000
MaxReadRegisters == 125
MaxWriteBits == 1968
MaxWriteRegisters == 123

RECURSIVE Pow2(_)
Pow2(n) == IF n = 0 THEN 1 ELSE 2 * Pow2(n - 1)

\* pack_bitstring: bits to bytes, least significant bit first, padded with zeros
pack_bitstring(bits) ==
    LET bit(n) == IF n <= Len(bits) /\ bits[n] # 0 THEN 1 ELSE 0
    IN  [k \in 1..((Len(bits) + 7) \div 8) |->
            bit(8*k - 7) + 2 * bit(8*k - 6) + 4 * bit(8*k - 5) + 8 * bit(8*k - 4)
            + 16 * bit(8*k - 3) + 32 * bit(8*k - 2) + 64 * bit(8*k - 1) + 128 * bit(8*k)]

\* unpack_bitstring: bytes to bits
unpack_bitstring(bytes) ==
    [n \in 1..(8 * Len(bytes)) |-> (bytes[(n - 1) \div 8 + 1] \div Pow2((n - 1) % 8)) % 2]

\* struct.pack(">H", v) for each register
RECURSIVE pack_registers(_)
pack_registers(regs) ==
    IF regs = <<>> THEN <<>>
    ELSE <<regs[1] \div 256, regs[1] % 256>> \o pack_registers(Tail(regs))

\* struct.unpack(">H", ...) for each pair of bytes
unpack_registers(bytes) ==
    [k \in 1..(Len(bytes) \div 2) |-> 256 * bytes[2*k - 1] + bytes[2*k]]

\* ModbusRequest.doException
doException(fc, code) == [function_code |-> fc + ExceptionBit, data |-> <<code>>]

ReadBitsResponse(fc, values) ==
    LET bytes == pack_bitstring(values)
    IN  [function_code |-> fc, data |-> <<Len(bytes)>> \o bytes]

ReadRegistersResponse(fc, values) ==
    LET bytes == pack_registers(values)
    IN  [function_code |-> fc, data |-> <<Len(bytes)>> \o bytes]

\* the echo of a write: two 16-bit words
WriteResponse(fc, a, b) == [function_code |-> fc, data |-> pack_registers(<<a, b>>)]

Unchanged(st, resp) == [store |-> st, response |-> resp, wrote |-> FALSE, address |-> 0, values |-> <<>>]
Written(st, resp, address, values) ==
    [store |-> st, response |-> resp, wrote |-> TRUE, address |-> address, values |-> values]

\* ReadCoilsRequest.execute, ReadDiscreteInputsRequest.execute
ReadBitsExecute(st, req) ==
    IF ~(1 <= req.count /\ req.count <= MaxReadBits)
    THEN Unchanged(st, doException(req.fc, IllegalValue))
    ELSE IF ~validate(st, req.fc, req.address, req.count)
    THEN Unchanged(st, doException(req.fc, IllegalAddress))
    ELSE Unchanged(st, ReadBitsResponse(req.fc, getValues(st, req.fc, req.address, req.count)))

\* the address range checked before the quantity
ReadRegistersExecute_address_first(st, req) ==
    IF ~validate(st, req.fc, req.address, req.count)
    THEN Unchanged(st, doException(req.fc, IllegalAddress))
    ELSE IF ~(1 <= req.count /\ req.count <= MaxReadRegisters)
    THEN Unchanged(st, doException(req.fc, IllegalValue))
    ELSE Unchanged(st, ReadRegistersResponse(req.fc, getValues(st, req.fc, req.address, req.count)))

\* ReadHoldingRegistersRequest.execute, ReadInputRegistersRequest.execute
ReadRegistersExecute(st, req) ==
    IF ~(1 <= req.count /\ req.count <= MaxReadRegisters)
    THEN Unchanged(st, doException(req.fc, IllegalValue))
    ELSE IF ~validate(st, req.fc, req.address, req.count)
    THEN Unchanged(st, doException(req.fc, IllegalAddress))
    ELSE Unchanged(st, ReadRegistersResponse(req.fc, getValues(st, req.fc, req.address, req.count)))

\* the bytes of the "on" word swapped: 0x00FF instead of 0xFF00
coil_value_swapped(word) == IF word = 255 THEN 1 ELSE 0

\* WriteSingleCoilRequest.decode: the value word becomes a bool
coil_value(word) == IF word = ModbusStatusOn THEN 1 ELSE 0

\* WriteSingleCoilRequest.execute
WriteSingleCoilExecute(st, req) ==
    LET value == coil_value(req.values[1])
        st2 == setValues(st, req.fc, req.address, <<value>>)
        values == getValues(st2, req.fc, req.address, 1)
    IN  IF ~validate(st, req.fc, req.address, 1)
        THEN Unchanged(st, doException(req.fc, IllegalAddress))
        ELSE Written(st2, WriteResponse(req.fc, req.address, IF values[1] # 0 THEN ModbusStatusOn ELSE 0),
                     req.address, <<value>>)

\* WriteSingleRegisterRequest.execute
WriteSingleRegisterExecute(st, req) ==
    LET value == req.values[1]
        st2 == setValues(st, req.fc, req.address, <<value>>)
        values == getValues(st2, req.fc, req.address, 1)
    IN  IF ~(0 <= value /\ value <= 65535)
        THEN Unchanged(st, doException(req.fc, IllegalValue))
        ELSE IF ~validate(st, req.fc, req.address, 1)
        THEN Unchanged(st, doException(req.fc, IllegalAddress))
        ELSE Written(st2, WriteResponse(req.fc, req.address, values[1]), req.address, <<value>>)

\* WriteMultipleCoilsRequest.execute
WriteMultipleCoilsExecute(st, req) ==
    IF ~(1 <= req.count /\ req.count <= MaxWriteBits)
    THEN Unchanged(st, doException(req.fc, IllegalValue))
    ELSE IF req.byte_count # (req.count + 7) \div 8
    THEN Unchanged(st, doException(req.fc, IllegalValue))
    ELSE IF ~validate(st, req.fc, req.address, req.count)
    THEN Unchanged(st, doException(req.fc, IllegalAddress))
    ELSE Written(setValues(st, req.fc, req.address, req.values),
                 WriteResponse(req.fc, req.address, req.count), req.address, req.values)

\* WriteMultipleRegistersRequest.execute
WriteMultipleRegistersExecute(st, req) ==
    IF ~(1 <= req.count /\ req.count <= MaxWriteRegisters)
    THEN Unchanged(st, doException(req.fc, IllegalValue))
    ELSE IF req.byte_count # req.count * 2
    THEN Unchanged(st, doException(req.fc, IllegalValue))
    ELSE IF ~validate(st, req.fc, req.address, req.count)
    THEN Unchanged(st, doException(req.fc, IllegalAddress))
    ELSE Written(setValues(st, req.fc, req.address, req.values),
                 WriteResponse(req.fc, req.address, req.count), req.address, req.values)

\* the function-code lookup of the server's decoder and the request's execute
Execute(st, req) ==
    CASE req.fc \in {1, 2} -> ReadBitsExecute(st, req)
      [] req.fc \in {3, 4} -> ReadRegistersExecute(st, req)
      [] req.fc = 5 -> WriteSingleCoilExecute(st, req)
      [] req.fc = 6 -> WriteSingleRegisterExecute(st, req)
      [] req.fc = 15 -> WriteMultipleCoilsExecute(st, req)
      [] req.fc = 16 -> WriteMultipleRegistersExecute(st, req)
      [] OTHER -> Unchanged(st, doException(req.fc, IllegalFunction))

ReadFunctions == {1, 2, 3, 4}
WriteFunctions == {5, 6, 15, 16}

\* the requests the clients of the model send
ReadRequests ==
    ({[fc |-> f, address |-> a, count |-> n, values |-> <<>>, byte_count |-> 0] :
        f \in ReadFunctions, a \in {0, 45}, n \in {0, 10, 130}}
     \ {[fc |-> f, address |-> 45, count |-> n, values |-> <<>>, byte_count |-> 0] :
        f \in ReadFunctions, n \in {0, 130}})
    \cup
    {[fc |-> f, address |-> 0, count |-> 2001, values |-> <<>>, byte_count |-> 0] : f \in {1, 2}}

WriteSingleRequests ==
    {[fc |-> 5, address |-> a, count |-> 1, values |-> <<w>>, byte_count |-> 0] :
        a \in {3}, w \in {ModbusStatusOn, 0, 4660}}
    \cup
    {[fc |-> 5, address |-> 50, count |-> 1, values |-> <<ModbusStatusOn>>, byte_count |-> 0]}
    \cup
    {[fc |-> 6, address |-> a, count |-> 1, values |-> <<v>>, byte_count |-> 0] :
        a \in {0, 50}, v \in {65535}}

WriteMultipleRequests ==
    {[fc |-> 15, address |-> a, count |-> Len(v), values |-> v, byte_count |-> b] :
        a \in {8}, v \in {<<1, 0, 1>>}, b \in {1, 2}}
    \cup
    {[fc |-> 15, address |-> 45, count |-> 6, values |-> <<1, 1, 1, 1, 1, 1>>, byte_count |-> 1]}
    \cup
    {[fc |-> 16, address |-> a, count |-> Len(v), values |-> v, byte_count |-> 2 * Len(v)] :
        a \in {0}, v \in {<<65535, 5>>}}
    \cup
    {[fc |-> 16, address |-> 48, count |-> 3, values |-> <<9, 8, 7>>, byte_count |-> 6]}

Requests ==
    ReadRequests \cup WriteSingleRequests \cup WriteMultipleRequests
    \cup {[fc |-> 65, address |-> 0, count |-> 1, values |-> <<>>, byte_count |-> 0]}

\* request.execute(context) on the store, and what the step shows of it
ClientExecute(req) ==
    LET r == Execute(store, req)
    IN  /\ store' = r.store
        /\ last' = [Step("request", NoCycle) EXCEPT
                       !.request = req, !.response = r.response, !.wrote = r.wrote]
        /\ ideal' = IF r.wrote THEN IdealWrite(ideal, decode(req.fc), r.address, r.values) ELSE ideal

\* a store lock kept by a task across its sleep: the request waits for it
ClientRequest_waits_for_sleepers(req) ==
    /\ main_pc # "done"
    /\ nreq < MaxRequests
    /\ \A t \in Tasks : task[t] # "sleeping"
    /\ ClientExecute(req)
    /\ nreq' = nreq + 1
    /\ UNCHANGED <<toggle_index, task, cancel_req, main_pc, started, completed, conn>>

\* the server executes one client request and answers it
ClientRequest(req) ==
    /\ main_pc # "done"
    /\ nreq < MaxRequests
    /\ ClientExecute(req)
    /\ nreq' = nreq + 1
    /\ UNCHANGED <<toggle_index, task, cancel_req, main_pc, started, completed, conn>>

----------------------------------------------------------------------------
(* One connection of the server: ModbusConnectedRequestHandler with
   ModbusSocketFramer.  The bytes of a frame may arrive in several reads, the
   7-byte MBAP header first. *)

\* the MBAP header fields a client sends
TransactionIds == {7}
ProtocolIds == {0, 1}
UnitIds == {1}

\* a frame written back: the header fields of the request and the response PDU
NoFrame == [tid |-> 0, pid |-> 0, uid |-> 0, pdu |-> NoResponse]

\* the connection as accepted: nothing received, nothing written
Accepted ==
    [state |-> "AwaitingHeader", tid |-> 0, pid |-> 0, uid |-> 0,
     frames |-> 0, sent |-> 0, out |-> NoFrame]

\* ModbusSocketFramer.checkFrame: the header is unpacked into tid, pid, len, uid;
\* only the length is looked at
checkFrame(pid) == TRUE

\* the requests sent on the connection
ConnRequests == {req \in Requests : req.fc \in {1, 5, 65}}

\* the seven bytes of a header have been read
HeaderArrives(tid, pid, uid) ==
    /\ conn.state = "AwaitingHeader"
    /\ conn.frames < MaxFrames
    /\ conn' = [conn EXCEPT !.state = IF checkFrame(pid) THEN "AwaitingPDU" ELSE "Closed",
                            !.tid = tid, !.pid = pid, !.uid = uid,
                            !.frames = @ + 1]
    /\ last' = Step("header", NoCycle)
    /\ UNCHANGED <<store, toggle_index, task, cancel_req, main_pc, started, completed, nreq, ideal>>

\* the bytes of the PDU have been read: the frame is complete and is decoded
PduArrives(req) ==
    /\ conn.state = "AwaitingPDU"
    /\ conn' = [conn EXCEPT !.state = "Dispatching"]
    /\ last' = [Step("pdu", NoCycle) EXCEPT !.request = req]
    /\ UNCHANGED <<store, toggle_index, task, cancel_req, main_pc, started, completed, nreq, ideal>>

\* the handler's execute: request.execute(context), then the response is sent
\* under the transaction, protocol and unit id of the request
Dispatch ==
    /\ conn.state = "Dispatching"
    /\ ClientExecute(last.request)
    /\ conn' = [conn EXCEPT !.state = "AwaitingHeader",
                            !.sent = @ + 1,
                            !.out = [tid |-> conn.tid, pid |-> conn.pid, uid |-> conn.uid,
                                     pdu |-> Execute(store, last.request).response]]
    /\ UNCHANGED <<toggle_index, task, cancel_req, main_pc, started, completed, nreq>>

\* the read fails or returns no bytes (the peer has closed, possibly in the
\* middle of a frame): the handler leaves its loop
ReadError ==
    /\ conn.state \in {"AwaitingHeader", "AwaitingPDU"}
    /\ conn' = [conn EXCEPT !.state = "Closed"]
    /\ last' = Step("read_error", NoCycle)
    /\ UNCHANGED <<store, toggle_index, task, cancel_req, main_pc, started, completed, nreq, ideal>>

Init ==
    /\ store = build_datastore
    /\ toggle_index = 0
    /\ task = [t \in Tasks |-> "created"]
    /\ cancel_req = [t \in Tasks |-> FALSE]
    /\ main_pc = "serving"
    /\ last = Step("init", NoCycle)
    /\ started = [t \in Tasks |-> 0]
    /\ completed = [t \in Tasks |-> 0]
    /\ nreq = 0
    /\ ideal = build_datastore
    /\ conn = Accepted

Next ==
    \/ CoilsCycle
    \/ HrCycle
    \/ \E req \in Requests : ClientRequest(req)
    \/ \E t \in Tasks : TaskCancelled(t)
    \/ ServeForeverEnds
    \/ GatherReturns

Spec == Init /\ [][Next]_vars

\* the two tasks and main(), no client connected, with exceptions raised inside
\* the cycles of the tasks
NextF ==
    \/ CoilsCycle
    \/ HrCycle
    \/ CoilsCycleRaises
    \/ HrCycleRaises
    \/ \E t \in Tasks : TaskCancelled(t)
    \/ ServeForeverEnds
    \/ GatherReturns

SpecF == Init /\ [][NextF]_vars

\* the long run of coils_task, with clients writing coils
CoilsCycleLong == CoilsRun("none", MaxRoundRobin)

CoilWrites == {req \in Requests : req.fc \in {5, 15}}

NextLong ==
    \/ CoilsCycleLong
    \/ \E req \in CoilWrites : ClientRequest(req)
    \/ \E t \in Tasks : TaskCancelled(t)
    \/ ServeForeverEnds
    \/ GatherReturns

SpecLong == Init /\ [][NextLong]_vars

\* the datastore on its own: a setValues on the context followed at once by the
\* getValues of the same range, for any function code and any range inside the bank
StoreFunctions == {1, 2, 3, 4, 5, 6, 15, 16}
StoreAddresses == {0, 9, 47}
StoreValues == {<<1>>, <<1, 0, 1>>, <<65535, 0, 7>>}

StoreWriteRead(fx, address, vals) ==
    /\ nreq < MaxStoreCalls
    /\ validate(store, fx, address, Len(vals))
    /\ LET st2 == setValues(store, fx, address, vals)
       IN  /\ store' = st2
           /\ last' = [Step("store", NoCycle) EXCEPT
                          !.new = vals,
                          !.after = getValues(st2, fx, address, Len(vals)),
                          !.wrote = TRUE,
                          !.request = [NoRequest EXCEPT !.fc = fx, !.address = address,
                                                        !.count = Len(vals), !.values = vals]]
           /\ ideal' = IdealWrite(ideal, decode(fx), address, vals)
    /\ nreq' = nreq + 1
    /\ UNCHANGED <<toggle_index, task, cancel_req, main_pc, started, completed, conn>>

NextStore ==
    \E fx \in StoreFunctions, address \in StoreAddresses, vals \in StoreValues :
        StoreWriteRead(fx, address, vals)

SpecStore == Init /\ [][NextStore]_vars

\* a client that writes a coil coils_task also writes
LiveWrites == {req \in Requests : req.fc = 5 /\ req.address = 3 /\ req.values[1] = ModbusStatusOn}

\* the event loop under fair scheduling: a task whose sleep has ended (or that
\* has just been created) is run; clients and the end of serve_forever come or not
NextLive ==
    \/ CoilsCycle
    \/ HrCycle
    \/ \E req \in LiveWrites : ClientRequest(req)
    \/ \E t \in Tasks : TaskCancelled(t)
    \/ ServeForeverEnds
    \/ GatherReturns

SpecLive ==
    /\ Init
    /\ [][NextLive]_vars
    /\ WF_vars(CoilsCycle)
    /\ WF_vars(HrCycle)

\* one connection, the tasks not yet started
NextConn ==
    \/ \E tid \in TransactionIds, pid \in ProtocolIds, uid \in UnitIds : HeaderArrives(tid, pid, uid)
    \/ \E req \in ConnRequests : PduArrives(req)
    \/ Dispatch
    \/ ReadError

SpecConn == Init /\ [][NextConn]_vars

----------------------------------------------------------------------------
(* Properties *)

\* cells address .. address + count - 1 of a bank
Cells(values, address, count) == [k \in 1..count |-> values[address + k]]

FlipOf(v) == IF v = 0 THEN 1 ELSE 0

\* C1: every cycle of coils_task that completes leaves exactly one of the coils
\* 0..9 flipped with respect to the ten coils it read, the other nine as read, and
\* the k-th completed cycle (from 0) flips coil k mod 10.
C1_RoundRobinFlip ==
    (last.op = "coils" /\ last.raises = "none") =>
        LET k == completed["coils"] - 1
        IN  /\ Len(last.rr) = 10
            /\ \A i \in 0..9 :
                  store["c"][i + 1] = IF i = k % 10 THEN FlipOf(last.rr[i + 1]) ELSE last.rr[i + 1]

\* the 12th completed cycle (k = 11) has run, after a client wrote coils
C1_Witness ==
    /\ last.op = "coils"
    /\ last.raises = "none"
    /\ completed["coils"] = 12
    /\ nreq >= 1
    /\ last.rr[2] = 1
    /\ store["c"][2] = 0

\* C3: every cycle of holding_registers_task that completes sets holding register 0
\* to (v + 1) mod 65536, v being the value of register 0 the cycle read; 65535 wraps
\* to 0 and every holding register stays within 0..65535.
C3_WrappingIncrement ==
    /\ \A a \in 1..Len(store["h"]) : store["h"][a] \in 0..65535
    /\ (last.op = "hr" /\ last.raises = "none") =>
          /\ store["h"][1] = (last.rr[1] + 1) % 65536
          /\ last.rr[1] = 65535 => store["h"][1] = 0

\* a cycle read 65535 in register 0 and left 0 there
C3_Witness ==
    /\ last.op = "hr"
    /\ last.raises = "none"
    /\ last.rr[1] = 65535
    /\ store["h"][1] = 0

TaskOf(op) == IF op = "coils" THEN "coils" ELSE "hr"

\* C4: an exception raised inside a cycle of either task, at the read, the write or
\* the verify read, does not end the task: the task is at its sleep afterwards and,
\* unless it has been cancelled, its next cycle can start.
C4_TaskSurvivesException ==
    /\ \A t \in Tasks : task[t] # "failed"
    /\ (last.op \in {"coils", "hr"} /\ last.raises # "none") =>
          /\ task[TaskOf(last.op)] = "sleeping"
          /\ (last.op = "coils" /\ ~cancel_req["coils"] /\ started["coils"] < MaxCoilsCycles)
                => ENABLED CoilsCycle
          /\ (last.op = "hr" /\ ~cancel_req["hr"] /\ started["hr"] < MaxHrCycles)
                => ENABLED HrCycle

\* a cycle of coils_task completes after two cycles of it raised
C4_Witness ==
    /\ last.op = "coils"
    /\ last.raises = "none"
    /\ completed["coils"] = 1
    /\ started["coils"] = 3
    /\ toggle_index = 1

IsException(resp) == resp.function_code >= 128

\* what a client decodes from a read response: the bits, the registers
ResponseBits(resp, count) == SubSeq(unpack_bitstring(Tail(resp.data)), 1, count)
ResponseRegisters(resp) == unpack_registers(Tail(resp.data))

\* C2: reads never see a torn write.  Whatever the interleaving of client requests
\* and cycles of the tasks, every read (the read and the verify read of a cycle, a
\* client read request) returns, cell for cell, the bank as the complete writes
\* issued before it leave it: each prior write is seen whole, or overwritten by a
\* later whole write, never in part.
C2_ReadsSeeWholeWrites ==
    [][/\ (last'.op = "coils") =>
            /\ last'.rr = Cells(ideal["c"], 0, 10)
            /\ last'.after = Cells(ideal'["c"], 0, 10)
       /\ (last'.op = "hr") =>
            /\ last'.rr = Cells(ideal["h"], 0, 10)
            /\ last'.after = Cells(ideal'["h"], 0, 10)
       /\ (last'.op = "request" /\ last'.request.fc \in {1, 2} /\ ~IsException(last'.response)) =>
            ResponseBits(last'.response, last'.request.count)
                = Cells(ideal[IF last'.request.fc = 1 THEN "c" ELSE "d"],
                        last'.request.address, last'.request.count)
       /\ (last'.op = "request" /\ last'.request.fc \in {3, 4} /\ ~IsException(last'.response)) =>
            ResponseRegisters(last'.response)
                = Cells(ideal[IF last'.request.fc = 3 THEN "h" ELSE "i"],
                        last'.request.address, last'.request.count)
      ]_vars

\* a client reads coils 0..9 after a cycle of coils_task and a client write to coil 3
C2_Witness ==
    /\ last.op = "request"
    /\ last.request.fc = 1
    /\ last.request.address = 0
    /\ last.request.count = 10
    /\ completed["coils"] = 1
    /\ ResponseBits(last.response, 10) = <<1, 0, 0, 1, 0, 0, 0, 0, 0, 0>>

\* C5: a client write request (function 5, 6, 15 or 16) leaves the 50 discrete
\* inputs and the 50 input registers as they were before the request.
C5_WireWritesLeaveReadOnlyBanks ==
    [][(last'.op = "request" /\ last'.request.fc \in {5, 6, 15, 16}) =>
            /\ store'["d"] = store["d"]
            /\ store'["i"] = store["i"]
            /\ Len(store'["d"]) = 50
            /\ Len(store'["i"]) = 50
      ]_vars

\* a client has written a single register and then a single coil
C5_Witness ==
    /\ last.op = "request"
    /\ last.request.fc = 5
    /\ last.wrote
    /\ store["c"][4] = 1
    /\ store["h"][1] = 65535

\* the quantity of a request is within the limit of its function code
QuantityWithinLimit(req) ==
    CASE req.fc \in {1, 2} -> 1 <= req.count /\ req.count <= 2000
      [] req.fc \in {3, 4} -> 1 <= req.count /\ req.count <= 125
      [] req.fc \in {5, 6} -> TRUE
      [] req.fc = 15 -> 1 <= req.count /\ req.count <= 1968 /\ req.byte_count = (req.count + 7) \div 8
      [] req.fc = 16 -> 1 <= req.count /\ req.count <= 123 /\ req.byte_count = 2 * req.count

C7_BankSizeFixed ==
    \A b \in {"d", "c", "h", "i"} : Len(store[b]) = 50 /\ DOMAIN store[b] = 1..50

\* after cycles of both tasks, a valid client write and a write past the end
C7_Witness ==
    /\ nreq = 2
    /\ completed["coils"] >= 1
    /\ completed["hr"] >= 1
    /\ last.op = "request"
    /\ last.request.fc = 5
    /\ last.request.address = 50
    /\ IsException(last.response)
    /\ store["h"][1] = 65535

\* C8: for each of the four banks, a read of (address, len(values)) made right
\* after the write of values at address, the range being inside the bank, returns
\* exactly values.
C8_WriteReadRoundTrip ==
    (last.op = "store") =>
        /\ last.after = last.new
        /\ last.after = last.request.values

\* the last three input registers written and read back, after an earlier write
C8_Witness ==
    /\ last.op = "store"
    /\ last.request.fc = 4
    /\ last.request.address = 47
    /\ last.after = <<65535, 0, 7>>
    /\ nreq = 2

\* C9: when serve_forever ends, both tasks are signalled; once signalled a task
\* starts no new cycle; a task stops with every cycle it started run to its end;
\* main() finishes only after both tasks have stopped.
C9_CoordinatedShutdown ==
    /\ [](main_pc # "serving" => \A t \in Tasks : cancel_req[t])
    /\ [](\A t \in Tasks : task[t] = "cancelled" => completed[t] = started[t])
    /\ [](main_pc = "done" => \A t \in Tasks : task[t] = "cancelled")
    /\ [][\A t \in Tasks : cancel_req[t] => started'[t] = started[t]]_vars

\* main() is done after both tasks ran cycles
C9_Witness ==
    /\ main_pc = "done"
    /\ completed["coils"] >= 1
    /\ completed["hr"] >= 1
    /\ \A t \in Tasks : task[t] = "cancelled"

Fresh == nreq = 0 /\ \A t \in Tasks : started[t] = 0
FirstRequest == nreq = 1 /\ last.op = "request" /\ \A t \in Tasks : started[t] = 0

\* C10: before any cycle or request the store holds 50 discrete inputs 0, 50
\* coils 0, holding register i = i and input register i = 1000 + i, i in 0..49,
\* addressed from 0: the first request, if a read of 10 cells at address 0, returns
\* ten false coils, holding registers 0..9, input registers 1000..1009.
C10_InitialStore ==
    /\ Fresh =>
          /\ \A b \in {"d", "c", "h", "i"} : Len(store[b]) = 50
          /\ \A i \in 0..49 :
                /\ store["d"][i + 1] = 0
                /\ store["c"][i + 1] = 0
                /\ store["h"][i + 1] = i
                /\ store["i"][i + 1] = 1000 + i
    /\ (FirstRequest /\ last.request.address = 0 /\ last.request.count = 10) =>
          /\ last.request.fc \in {1, 2} =>
                /\ last.response.function_code = last.request.fc
                /\ ResponseBits(last.response, 10) = <<0, 0, 0, 0, 0, 0, 0, 0, 0, 0>>
          /\ last.request.fc = 3 =>
                ResponseRegisters(last.response) = <<0, 1, 2, 3, 4, 5, 6, 7, 8, 9>>
          /\ last.request.fc = 4 =>
                ResponseRegisters(last.response)
                    = <<1000, 1001, 1002, 1003, 1004, 1005, 1006, 1007, 1008, 1009>>

\* Read Coils, address 0, count 10, is the first thing to happen
C10_Witness ==
    /\ FirstRequest
    /\ last.request.fc = 1
    /\ last.request.address = 0
    /\ last.request.count = 10
    /\ last.response = [function_code |-> 1, data |-> <<2, 0, 0>>]

\* C11: Write Single Coil with 0xFF00 at address a (0 <= a < 50) sets coil a and
\* changes no other cell, with 0x0000 it clears coil a; on a store whose coils are
\* all false, Write Single Coil 0xFF00 at 3 followed by Read Coils 0, count 10,
\* returns index 3 true and the others false.
C11_WriteSingleCoil ==
    [][/\ (/\ last'.op = "request"
           /\ last'.request.fc = 5
           /\ last'.request.values[1] \in {65280, 0}
           /\ last'.request.address \in 0..49) =>
              /\ store'["c"] = [store["c"] EXCEPT ![last'.request.address + 1] =
                                    IF last'.request.values[1] = 65280 THEN 1 ELSE 0]
              /\ \A b \in {"d", "h", "i"} : store'[b] = store[b]
       /\ (/\ nreq = 1
           /\ started["coils"] = 0
           /\ last.op = "request"
           /\ last.request.fc = 5
           /\ last.request.address = 3
           /\ last.request.values[1] = 65280
           /\ last'.op = "request"
           /\ last'.request.fc = 1
           /\ last'.request.address = 0
           /\ last'.request.count = 10) =>
              ResponseBits(last'.response, 10) = <<0, 0, 0, 1, 0, 0, 0, 0, 0, 0>>
      ]_vars

\* Read Coils 0, count 10, answered with only coil 3 set, no cycle of coils_task
\* having run: the request before it was Write Single Coil 0xFF00 at 3
C11_Witness ==
    /\ nreq = 2
    /\ started["coils"] = 0
    /\ last.op = "request"
    /\ last.request.fc = 1
    /\ last.request.address = 0
    /\ last.request.count = 10
    /\ last.response = [function_code |-> 1, data |-> <<2, 8, 0>>]

\* C12: a Write Single Coil request whose value is neither 0xFF00 nor 0x0000 is
\* answered with exception code 3 and writes nothing.
C12_IllegalCoilValueRejected ==
    (/\ last.op = "request"
     /\ last.request.fc = 5
     /\ last.request.address \in 0..49
     /\ last.request.values[1] \notin {65280, 0}) =>
        /\ last.response = [function_code |-> 133, data |-> <<3>>]
        /\ ~last.wrote

\* the quantity limit of a read function
ReadLimit(fc) == IF fc \in {1, 2} THEN 2000 ELSE 125

\* C13: a read request whose quantity is 0 or above the limit of its function
\* (2000 bits, 125 registers) is answered with exception code 3 and the store is
\* as before, also when the address range is outside the bank: the quantity is
\* checked first.
C13_QuantityCheckedFirst ==
    [][(/\ last'.op = "request"
        /\ last'.request.fc \in {1, 2, 3, 4}
        /\ (last'.request.count < 1 \/ last'.request.count > ReadLimit(last'.request.fc))) =>
            /\ last'.response = [function_code |-> last'.request.fc + 128, data |-> <<3>>]
            /\ ~last'.wrote
            /\ store' = store
      ]_vars

\* Read Holding Registers 0, count 130: over the limit and past the end of the bank
C13_Witness ==
    /\ last.op = "request"
    /\ last.request.fc = 3
    /\ last.request.address = 0
    /\ last.request.count = 130
    /\ last.response = [function_code |-> 131, data |-> <<3>>]

\* C14: on a connection, a frame whose protocol id is not 0, a read error or a
\* truncated frame closes the connection and no response is written for that
\* frame; a request that yields a protocol exception is answered with exactly one
\* exception response and the connection goes back to AwaitingHeader; Closed is
\* terminal.
C14_ConnectionStateMachine ==
    [][/\ (last'.op = "header" /\ conn'.pid # 0) => conn'.state = "Closed"
       /\ conn.pid # 0 => conn'.sent = conn.sent
       /\ last'.op = "read_error" => (conn'.state = "Closed" /\ conn'.sent = conn.sent)
       /\ (conn.state = "Dispatching" /\ IsException(Execute(store, last.request).response)) =>
              /\ conn'.state = "AwaitingHeader"
              /\ conn'.sent = conn.sent + 1
              /\ conn'.out.pdu = Execute(store, last.request).response
       /\ conn.state = "Closed" => conn' = conn
      ]_vars

\* the cycles of a task the model follows
MaxCycles(t) == IF t = "coils" THEN MaxCoilsCycles ELSE MaxHrCycles

\* C15: under fair scheduling and while serve_forever has not ended, each task
\* goes on completing cycles: from any point where the server is serving, the
\* task comes to have completed every cycle the model follows, or serve_forever
\* has ended.
C15_TasksKeepCycling ==
    \A t \in Tasks :
        (main_pc = "serving") ~> (completed[t] = MaxCycles(t) \/ main_pc # "serving")

\* both tasks have completed two cycles with a client write in between, the server
\* still serving
C15_Witness ==
    /\ completed["coils"] >= 2
    /\ completed["hr"] >= 2
    /\ nreq >= 1
    /\ main_pc = "serving"

\* C16: a cycle of a task is one step with no suspension inside it, after which
\* the task is at its sleep: right after the step the bank holds what the cycle
\* wrote and the verify read has returned it; and while a task is at its sleep
\* and the server is serving, every client request can be executed.
C16_SuspendsOnlyAtSleep ==
    /\ last.op = "coils" =>
           /\ Cells(store["c"], 0, 10) = last.new
           /\ last.after = last.new
           /\ task["coils"] = "sleeping"
    /\ last.op = "hr" =>
           /\ Cells(store["h"], 0, 10) = last.new
           /\ last.after = last.new
           /\ task["hr"] = "sleeping"
    /\ ((\E t \in Tasks : task[t] = "sleeping") /\ main_pc = "serving" /\ nreq < MaxRequests) =>
           \A req \in Requests : ENABLED ClientRequest(req)

\* a client write executed while both tasks are at their sleep
C16_Witness ==
    /\ \A t \in Tasks : task[t] = "sleeping"
    /\ main_pc = "serving"
    /\ last.op = "request"
    /\ last.wrote

\* C17: a cycle of coils_task that raises, at the read, at the write or at the
\* verify read, leaves the coils bank and toggle_index as they were before it.
C17_FailedCycleNoEffect ==
    [][(last'.op = "coils" /\ last'.raises # "none") =>
           /\ store'["c"] = store["c"]
           /\ toggle_index' = toggle_index
      ]_vars

\* C18: no lost update: what a cycle writes back is the range as it is when the
\* cycle's step begins, completed client writes included, with only the cycle's
\* own change: a coils cycle leaves every coil of 0..9 other than idx as the
\* step found it and inverts the one at idx, a holding-registers cycle leaves
\* registers 1..9 as the step found them and increments register 0.
C18_NoLostUpdate ==
    [][/\ last'.op = "coils" =>
              \A k \in 1..10 :
                  store'["c"][k] = IF k = last'.idx + 1
                                   THEN 1 - store["c"][k]
                                   ELSE store["c"][k]
       /\ last'.op = "hr" =>
              \A k \in 1..10 :
                  store'["h"][k] = IF k = 1
                                   THEN (store["h"][k] + 1) % 65536
                                   ELSE store["h"][k]
      ]_vars

\* coil 3, set by a client, still set after a later cycle of coils_task
C18_Witness ==
    /\ last.op = "coils"
    /\ completed["coils"] >= 2
    /\ nreq >= 1
    /\ store["c"][4] = 1

\* the cells of two banks that differ
Changed(a, b) == {k \in 1..Len(a) : a[k] # b[k]}

\* C19: a cycle of coils_task changes exactly one cell, a coil of 0..9, and a
\* cycle of holding_registers_task changes holding register 0 and nothing else:
\* coils 10..49, holding registers 1..49, the discrete inputs and the input
\* registers are after the cycle as they were before it.
C19_CyclesChangeOnlyTheirTarget ==
    [][/\ last'.op = "coils" =>
              /\ \A b \in {"d", "h", "i"} : store'[b] = store[b]
              /\ Cardinality(Changed(store'["c"], store["c"])) = 1
              /\ Changed(store'["c"], store["c"]) \subseteq 1..10
       /\ last'.op = "hr" =>
              /\ \A b \in {"c", "d", "i"} : store'[b] = store[b]
              /\ Changed(store'["h"], store["h"]) = {1}
      ]_vars

\* a cycle of holding_registers_task after a client has written registers 0 and 1
\* and coils_task has run: register 1 still holds the client's value
C19_Witness ==
    /\ last.op = "hr"
    /\ completed["coils"] >= 1
    /\ nreq >= 1
    /\ store["h"][2] = 5

\* the number of k in 0..n-1 with k mod 10 = i
Flips(n, i) == Cardinality({k \in 0..(n - 1) : k % 10 = i})

\* C20: with no client request executed, after n completed cycles of coils_task
\* coil i of 0..9 is 1 exactly when the number of k in 0..n-1 with k mod 10 = i
\* is odd; the task runs its first cycle before its first sleep; the ten coils
\* are all 1 after 10 cycles and all 0 after 20.
C20_CoilsAfterCycles ==
    /\ nreq = 0 =>
           /\ \A i \in 0..9 :
                  store["c"][i + 1] = Flips(completed["coils"], i) % 2
           /\ completed["coils"] = 10 => \A i \in 0..9 : store["c"][i + 1] = 1
           /\ completed["coils"] = 20 => \A i \in 0..9 : store["c"][i + 1] = 0
    /\ task["coils"] = "sleeping" => completed["coils"] >= 1
    /\ completed["coils"] = 0 => task["coils"] \in {"created", "cancelled"}

\* twenty cycles completed with no client request: the ten coils are 0 again
C20_Witness ==
    /\ nreq = 0
    /\ completed["coils"] = 20
    /\ \A i \in 0..9 : store["c"][i + 1] = 0

====
